---- MODULE Spec2Model ----
(***************************************************************************)
(* VAT classification and line-item aggregation of buildaroq, as the code  *)
(* computes it in the quote detail page, the invoice detail page, the      *)
(* invoice PDF route, the dashboard and the quote list; and the invoice    *)
(* handlers (createInvoice, the item form, deleteItem, setStatus,          *)
(* createCorrection, convertQuoteToInvoice) over the invoices and          *)
(* invoice_items tables.                                                   *)
(*                                                                         *)
(* Numbers.  A JavaScript value read from a row is a record [t, v]:        *)
(*   t = "num"  a finite number, v its value                               *)
(*   t = "nan"  a non-finite number (NaN)                                  *)
(*   t = "str"  a numeric string, v the number it parses to                *)
(*   t = "bad"  a non-empty string that does not parse to a number         *)
(*   t = "null" null                                                       *)
(* Units of v: money (unit_price, net, base, vat, totals) in cents,        *)
(* quantities in hundredths of a unit, VAT rates in whole percent.         *)
(* Arithmetic is exact; round2 is the only place a fraction is rounded.    *)
(***************************************************************************)
EXTENDS Integers, Sequences, FiniteSets, TLC

VARIABLES
    line,           \* SpecLine: the stored row under classification
    defRate,        \* SpecLine: the document's fallback default rate
    lview,          \* SpecLine: which copy of the per-line code ran last
    lout,           \* SpecLine: what that copy computed for the row
    items,          \* SpecTotals: the stored rows of one document, in created_at order
    pricesIncludeVat, \* SpecTotals: the document's prices_include_vat
    defaultVatRate, \* SpecTotals: the document's fallback default rate
    view,           \* SpecTotals: which totals computation ran last
    out,            \* SpecTotals: its result
    shown,          \* SpecTotals: the VAT rows it displays, as <<[label, amount]>>
    rx,             \* SpecRound: an amount x, in tenths of a cent
    rpos,           \* SpecRound: <<round2(x)>> in cents, or NotRounded
    rneg,           \* SpecRound: <<round2(-x)>> in cents, or NotRounded
    trow,           \* SpecSummary: the invoice_totals row of one invoice
    sview,          \* SpecSummary: "none", or "summary" once the dashboard ran
    sout,           \* SpecSummary: what the dashboard's calcTotals returned
    elines,         \* SpecEval: the Line[] passed to calcTotals
    ephase,         \* SpecEval: "idle", or "loop" while a call is in its for loop
    epos,           \* SpecEval: how many lines the running call has been through
    elocals,        \* SpecEval: subtotal, vatBreakdown and flags of the last call
    eresults,       \* SpecEval: what the calls so far returned, in order
    invoices,       \* SpecInvoice, SpecConvert: the invoices table; the id is the index
    invItems,       \* SpecInvoice, SpecConvert: the invoice_items table, in created_at order
    now,            \* SpecInvoice, SpecConvert: the clock new Date() reads
    quote,          \* SpecConvert: the row of quote 1 in the quotes table
    quoteItems,     \* SpecConvert: the quote_items rows of quote 1
    conv,           \* SpecConvert: where each running convertQuoteToInvoice call is
    lastConvert,    \* SpecConvert: how the last finished convertQuoteToInvoice call ended
    sending         \* SpecSend: where each running setStatus call is

vars == <<line, defRate, lview, lout, items, pricesIncludeVat, defaultVatRate,
          view, out, shown, rx, rpos, rneg, trow, sview, sout,
          elines, ephase, epos, elocals, eresults,
          invoices, invItems, now, quote, quoteItems, conv, lastConvert, sending>>

lineVars == <<line, defRate, lview, lout>>
totalsVars == <<items, pricesIncludeVat, defaultVatRate, view, out, shown>>
roundVars == <<rx, rpos, rneg>>
summaryVars == <<trow, sview, sout>>
evalVars == <<elines, ephase, epos, elocals, eresults>>
dbVars == <<invoices, invItems, now>>
convertVars == <<quote, quoteItems, conv, lastConvert>>
sendVars == <<sending>>

----------------------------------------------------------------------------
(* JavaScript values and coercions *)

Num(n) == [t |-> "num", v |-> n]
NaN == [t |-> "nan", v |-> 0]
Null == [t |-> "null", v |-> 0]
Str(n) == [t |-> "str", v |-> n]
Bad == [t |-> "bad", v |-> 0]

\* typeof v === "number"
isNumber(x) == x.t \in {"num", "nan"}

\* Number.isFinite(v): a number, and finite
isFinite(x) == x.t = "num"

\* toNumber(v): numbers pass, non-empty strings go through Number(), the rest is 0
toNumber(x) ==
    IF isNumber(x) THEN x
    ELSE IF x.t = "str" THEN Num(x.v)
    ELSE IF x.t = "bad" THEN NaN
    ELSE Num(0)

\* Number(v): null is 0, a string is parsed, an unparsable string is NaN
NumberOf(x) ==
    IF isNumber(x) THEN x
    ELSE IF x.t = "null" THEN Num(0)
    ELSE IF x.t = "str" THEN Num(x.v)
    ELSE NaN

\* a ?? b
Coalesce(a, b) == IF a.t = "null" THEN b ELSE a

\* it.vat_rate === null ? null : toNumber(it.vat_rate)
nullOrNumber(x) == IF x.t = "null" THEN Null ELSE toNumber(x)

----------------------------------------------------------------------------
(* round2 *)

\* A plausible slip: truncation toward minus infinity (Math.floor).
round2Floor(n, d) == n \div d

\* Math.round((x + Number.EPSILON) * 100) / 100 for the amount x = n/d cents,
\* d > 0: Math.round is floor(y + 0.5), so a tie goes toward plus infinity.
round2(n, d) == (2 * n + d) \div (2 * d)

\* round2(a + b) on numbers in cents
addRound(a, b) ==
    IF isFinite(a) /\ isFinite(b) THEN Num(round2(a.v + b.v, 1)) ELSE NaN

\* round2(qty * unitPrice): hundredths of a unit times cents
mulRound(q, p) ==
    IF isFinite(q) /\ isFinite(p) THEN Num(round2(q.v * p.v, 100)) ELSE NaN

\* round2(net * (rate / 100))
vatOf(net, rate) ==
    IF isFinite(net) /\ isFinite(rate) THEN Num(round2(net.v * rate.v, 100)) ELSE NaN

----------------------------------------------------------------------------
(* VAT classification *)

NullType == "null"

VatTypes == {"NL_21", "NL_9_WONING", "NL_REVERSE_CHARGE", "EU_B2B_REVERSE_CHARGE",
             "NON_EU_OUTSIDE_SCOPE", "FOREIGN_LOCAL_VAT"}

ZeroVatTypes == {"NL_REVERSE_CHARGE", "EU_B2B_REVERSE_CHARGE", "NON_EU_OUTSIDE_SCOPE"}

\* String(it.vat_type ?? "NL_21")
vatTypeOf(t) == IF t = NullType THEN "NL_21" ELSE t

\* A plausible slip: one of the three tags forgotten.
isZeroVatTypeMissingOutside(vatType) ==
    vatType = "NL_REVERSE_CHARGE" \/ vatType = "EU_B2B_REVERSE_CHARGE"

\* The same three-way comparison in all four files.
isZeroVatType(vatType) ==
    \/ vatType = "NL_REVERSE_CHARGE"
    \/ vatType = "EU_B2B_REVERSE_CHARGE"
    \/ vatType = "NON_EU_OUTSIDE_SCOPE"

\* A plausible slip: the type's default wins over the stored rate.
resolveVatRate_quotePage_typeFirst(vatType, vatRate, dflt) ==
    IF isZeroVatType(vatType) THEN Num(0)
    ELSE IF vatType = "NL_9_WONING" THEN Num(9)
    ELSE IF isNumber(vatRate) /\ isFinite(vatRate) /\ vatRate.v >= 0 THEN vatRate
    ELSE IF isFinite(dflt) THEN dflt ELSE Num(21)

\* quote detail page
resolveVatRate_quotePage(vatType, vatRate, dflt) ==
    IF isZeroVatType(vatType) THEN Num(0)
    ELSE IF isNumber(vatRate) /\ isFinite(vatRate) /\ vatRate.v >= 0 THEN vatRate
    ELSE IF vatType = "NL_9_WONING" THEN Num(9)
    ELSE IF isFinite(dflt) THEN dflt ELSE Num(21)

\* A plausible slip: a rate only for the three known rate-bearing tags, every
\* other tag taken as zero-rated.
resolveVatRate_invoicePdf_knownOnly(vatType, vatRate) ==
    LET r == IF isNumber(vatRate) THEN vatRate ELSE NumberOf(vatRate) IN
    IF vatType \notin {"NL_21", "NL_9_WONING", "FOREIGN_LOCAL_VAT"} THEN Num(0)
    ELSE IF isFinite(r) /\ r.v >= 0 THEN r
    ELSE IF vatType = "NL_9_WONING" THEN Num(9)
    ELSE Num(21)

\* invoice PDF route: the stored rate goes through Number()
resolveVatRate_invoicePdf(vatType, vatRate) ==
    LET r == IF isNumber(vatRate) THEN vatRate ELSE NumberOf(vatRate) IN
    IF isZeroVatType(vatType) THEN Num(0)
    ELSE IF isFinite(r) /\ r.v >= 0 THEN r
    ELSE IF vatType = "NL_9_WONING" THEN Num(9)
    ELSE Num(21)

\* dashboard: the stored rate goes through toNumber()
resolveVatRate_dashboard(vatType, vatRate) ==
    LET r == toNumber(vatRate) IN
    IF isZeroVatType(vatType) THEN Num(0)
    ELSE IF isFinite(r) /\ r.v >= 0 THEN r
    ELSE IF vatType = "NL_9_WONING" THEN Num(9)
    ELSE Num(21)

\* quote list: the stored rate goes through toNumber(); the default is returned as passed
resolveVatRate_quoteList(vatType, vatRate, dflt) ==
    LET r == toNumber(vatRate) IN
    IF isZeroVatType(vatType) THEN Num(0)
    ELSE IF isFinite(r) /\ r.v >= 0 THEN r
    ELSE IF vatType = "NL_9_WONING" THEN Num(9)
    ELSE dflt

----------------------------------------------------------------------------
(* Rows as the pages load them, and the per-line step of each totals loop *)

\* quote detail page, invoice PDF route, invoice detail page: the row mapping
\* after the select (the invoice detail page selects no vat_type and does not use it)
loadItem(it) ==
    [qty |-> toNumber(it.qty),
     unit_price |-> toNumber(it.unit_price),
     vat_type |-> vatTypeOf(it.vat_type),
     vat_rate |-> nullOrNumber(it.vat_rate)]

\* quote detail page: body of the totals loop; no line is skipped
quotePageLine(it, dflt) ==
    LET net == mulRound(it.qty, it.unit_price)
        vatType == vatTypeOf(it.vat_type)
        rate == resolveVatRate_quotePage(vatType, it.vat_rate, dflt)
    IN  [skipped |-> FALSE,
         vatType |-> vatType, rate |-> rate, net |-> net, vat |-> vatOf(net, rate)]

\* A plausible slip: the finiteness guard left out of the loop body.
invoicePdfLineNoSkip(l) ==
    LET qty == NumberOf(l.qty)
        unitPrice == NumberOf(l.unit_price)
        net == mulRound(qty, unitPrice)
        vatType == vatTypeOf(l.vat_type)
        rate == resolveVatRate_invoicePdf(vatType, l.vat_rate)
    IN  [skipped |-> FALSE,
         vatType |-> vatType, rate |-> rate, net |-> net, vat |-> vatOf(net, rate)]

\* invoice PDF route, calcTotals: body of the loop
invoicePdfLine(l) ==
    LET qty == NumberOf(l.qty)
        unitPrice == NumberOf(l.unit_price)
        net == mulRound(qty, unitPrice)
        vatType == vatTypeOf(l.vat_type)
        rate == resolveVatRate_invoicePdf(vatType, l.vat_rate)
    IN  [skipped |-> ~isFinite(qty) \/ ~isFinite(unitPrice),
         vatType |-> vatType, rate |-> rate, net |-> net, vat |-> vatOf(net, rate)]

\* dashboard, calcInvoiceTotalFromItems: body of the loop, on the raw row
dashboardLine(it) ==
    LET qty == toNumber(it.qty)
        price == toNumber(it.unit_price)
        net == mulRound(qty, price)
        vatType == vatTypeOf(it.vat_type)
        rate == resolveVatRate_dashboard(vatType, it.vat_rate)
    IN  [skipped |-> ~isFinite(qty) \/ ~isFinite(price),
         vatType |-> vatType, rate |-> rate, net |-> net, vat |-> vatOf(net, rate)]

\* quote list, calcTotalFromItems: body of the loop, on the raw row, default 21
quoteListLine(it) ==
    LET qty == toNumber(it.qty)
        price == toNumber(it.unit_price)
        net == mulRound(qty, price)
        vatType == vatTypeOf(it.vat_type)
        rate == resolveVatRate_quoteList(vatType, it.vat_rate, Num(21))
    IN  [skipped |-> ~isFinite(qty) \/ ~isFinite(price),
         vatType |-> vatType, rate |-> rate, net |-> net, vat |-> vatOf(net, rate)]

----------------------------------------------------------------------------
(* The rate-keyed accumulator (a Map, kept here in insertion order) *)

\* if (!map.has(rate)) map.set(rate, {base: 0, vat: 0}); row.base = round2(row.base + net);
\* row.vat = round2(row.vat + vat)
mapAdd(rows, rate, net, vat) ==
    IF \E i \in 1..Len(rows) : rows[i].rate = rate
    THEN [i \in 1..Len(rows) |->
            IF rows[i].rate = rate
            THEN [rate |-> rate, base |-> addRound(rows[i].base, net),
                  vat |-> addRound(rows[i].vat, vat)]
            ELSE rows[i]]
    ELSE Append(rows, [rate |-> rate, base |-> addRound(Num(0), net),
                       vat |-> addRound(Num(0), vat)])

\* the comparator (a, b) => a[0] - b[0] is negative
rateBefore(a, b) == isFinite(a.rate) /\ isFinite(b.rate) /\ a.rate.v < b.rate.v

\* r put into an ascending sequence, after the rows that do not come after it
RECURSIVE insertRow(_, _)
insertRow(r, sorted) ==
    IF sorted = << >> THEN <<r>>
    ELSE IF rateBefore(r, Head(sorted)) THEN <<r>> \o sorted
    ELSE <<Head(sorted)>> \o insertRow(r, Tail(sorted))

\* A plausible slip: the sort left out, rows in insertion order.
sortByRateOmitted(rows) == rows

\* Array.from(map.entries()).sort((a, b) => a[0] - b[0]): a stable ascending sort
RECURSIVE sortByRate(_)
sortByRate(rows) ==
    IF rows = << >> THEN << >>
    ELSE insertRow(rows[Len(rows)], sortByRate(SubSeq(rows, 1, Len(rows) - 1)))

\* rows.reduce((s, r) => s + r.vat, 0): a plain sum, not rounded
RECURSIVE sumVat(_)
sumVat(rows) ==
    IF rows = << >> THEN Num(0)
    ELSE LET s == sumVat(SubSeq(rows, 1, Len(rows) - 1))
             r == rows[Len(rows)]
         IN  IF isFinite(s) /\ isFinite(r.vat) THEN Num(s.v + r.vat.v) ELSE NaN

\* round2(n) of a number in cents
round2Num(x) == IF isFinite(x) THEN Num(round2(x.v, 1)) ELSE NaN

\* the three notice texts (the en dash of the second written as a hyphen)
NoticeNl == "BTW verlegd (onderaanneming/bouw)."
NoticeEu == "BTW verlegd - intracommunautaire dienst (EU B2B)."
NoticeOutside == "Plaats van dienst buiten Nederland (buiten EU)."

\* A plausible slip: the intra-EU notice pushed first.
noticesOfEuFirst(hasReverseNl, hasReverseEu, hasOutsideEu) ==
    (IF hasReverseEu THEN <<NoticeEu>> ELSE << >>)
    \o (IF hasReverseNl THEN <<NoticeNl>> ELSE << >>)
    \o (IF hasOutsideEu THEN <<NoticeOutside>> ELSE << >>)

\* the three pushes after the loop
noticesOf(hasReverseNl, hasReverseEu, hasOutsideEu) ==
    (IF hasReverseNl THEN <<NoticeNl>> ELSE << >>)
    \o (IF hasReverseEu THEN <<NoticeEu>> ELSE << >>)
    \o (IF hasOutsideEu THEN <<NoticeOutside>> ELSE << >>)

----------------------------------------------------------------------------
(* The totals computations *)

LoopStart ==
    [subtotal |-> Num(0), rows |-> << >>,
     hasReverseNl |-> FALSE, hasReverseEu |-> FALSE, hasOutsideEu |-> FALSE]

\* one aggregated line added to the running state of a multi-rate loop
loopStep(acc, l) ==
    [subtotal |-> addRound(acc.subtotal, l.net),
     rows |-> mapAdd(acc.rows, l.rate, l.net, l.vat),
     hasReverseNl |-> acc.hasReverseNl \/ l.vatType = "NL_REVERSE_CHARGE",
     hasReverseEu |-> acc.hasReverseEu \/ l.vatType = "EU_B2B_REVERSE_CHARGE",
     hasOutsideEu |-> acc.hasOutsideEu \/ l.vatType = "NON_EU_OUTSIDE_SCOPE"]

\* invoice PDF route: the loop of calcTotals over the first n lines
RECURSIVE calcTotalsLoop(_, _)
calcTotalsLoop(lines, n) ==
    IF n = 0 THEN LoopStart
    ELSE LET acc == calcTotalsLoop(lines, n - 1)
             l == invoicePdfLine(lines[n])
         IN  IF l.skipped THEN acc ELSE loopStep(acc, l)

\* invoice PDF route: calcTotals(lines); prices_include_vat is not an input
calcTotals(lines) ==
    LET acc == calcTotalsLoop(lines, Len(lines))
        vat_amount == round2Num(sumVat(acc.rows))
    IN  [subtotal |-> acc.subtotal,
         vat_amount |-> vat_amount,
         total |-> addRound(acc.subtotal, vat_amount),
         vat_breakdown |-> sortByRate(acc.rows),
         notices |-> noticesOf(acc.hasReverseNl, acc.hasReverseEu, acc.hasOutsideEu)]

\* quote detail page: the totals loop over the first n items
RECURSIVE quotePageLoop(_, _, _)
quotePageLoop(its, dflt, n) ==
    IF n = 0 THEN LoopStart
    ELSE loopStep(quotePageLoop(its, dflt, n - 1), quotePageLine(its[n], dflt))

\* quote detail page: section 5) Totals of QuoteDetailPage
quotePageTotals(its, dflt) ==
    LET acc == quotePageLoop(its, dflt, Len(its))
        vatBreakdown == sortByRate(acc.rows)
        vatAmount == round2Num(sumVat(vatBreakdown))
    IN  [subtotal |-> acc.subtotal,
         vatBreakdown |-> vatBreakdown,
         vatAmount |-> vatAmount,
         total |-> addRound(acc.subtotal, vatAmount),
         notices |-> noticesOf(acc.hasReverseNl, acc.hasReverseEu, acc.hasOutsideEu)]

\* dashboard: calcInvoiceTotalFromItems over the first n raw rows
RECURSIVE dashboardLoop(_, _)
dashboardLoop(its, n) ==
    IF n = 0 THEN [subtotal |-> Num(0), vatAmount |-> Num(0)]
    ELSE LET acc == dashboardLoop(its, n - 1)
             l == dashboardLine(its[n])
         IN  IF l.skipped THEN acc
             ELSE [subtotal |-> addRound(acc.subtotal, l.net),
                   vatAmount |-> addRound(acc.vatAmount, l.vat)]

calcInvoiceTotalFromItems(its) ==
    LET acc == dashboardLoop(its, Len(its))
    IN  [subtotal |-> acc.subtotal, vatAmount |-> acc.vatAmount,
         total |-> addRound(acc.subtotal, acc.vatAmount)]

\* quote list: calcTotalFromItems over the first n raw rows
RECURSIVE quoteListLoop(_, _)
quoteListLoop(its, n) ==
    IF n = 0 THEN [subtotal |-> Num(0), vatAmount |-> Num(0)]
    ELSE LET acc == quoteListLoop(its, n - 1)
             l == quoteListLine(its[n])
         IN  IF l.skipped THEN acc
             ELSE [subtotal |-> addRound(acc.subtotal, l.net),
                   vatAmount |-> addRound(acc.vatAmount, l.vat)]

calcTotalFromItems(its) ==
    LET acc == quoteListLoop(its, Len(its))
    IN  [subtotal |-> acc.subtotal, vatAmount |-> acc.vatAmount,
         total |-> addRound(acc.subtotal, acc.vatAmount)]

\* round2(line / (1 + rate / 100)): line * 100 / (100 + rate) cents
inclBase(ln, rate) ==
    IF ~isFinite(ln) \/ ~isFinite(rate) \/ 100 + rate.v = 0 THEN NaN
    ELSE IF 100 + rate.v > 0 THEN Num(round2(ln.v * 100, 100 + rate.v))
    ELSE Num(round2(-(ln.v * 100), -(100 + rate.v)))

\* A plausible slip: the VAT of an inclusive line computed as for an exclusive
\* one, round2(base * rate / 100), instead of as gross minus base.
invoicePageLineVatFromBase(it, dflt, incl) ==
    LET rate == Coalesce(it.vat_rate, dflt)
        qty == NumberOf(it.qty)
        unitPrice == NumberOf(it.unit_price)
        ln == mulRound(qty, unitPrice)
        skip == ~isFinite(qty) \/ ~isFinite(unitPrice)
    IN  IF incl
        THEN LET base == inclBase(ln, rate)
             IN  [skipped |-> skip, rate |-> rate, base |-> base,
                  vat |-> vatOf(base, rate), gross |-> ln]
        ELSE LET base == round2Num(ln)
                 vat == vatOf(base, rate)
             IN  [skipped |-> skip, rate |-> rate, base |-> base, vat |-> vat,
                  gross |-> addRound(base, vat)]

\* A plausible slip: the exclusive line's VAT taken from the unrounded amount
\* qty * unitPrice * rate / 100 instead of from the rounded base.
invoicePageLineVatUnrounded(it, dflt, incl) ==
    LET rate == Coalesce(it.vat_rate, dflt)
        qty == NumberOf(it.qty)
        unitPrice == NumberOf(it.unit_price)
        ln == mulRound(qty, unitPrice)
        skip == ~isFinite(qty) \/ ~isFinite(unitPrice)
    IN  IF incl
        THEN LET base == inclBase(ln, rate)
             IN  [skipped |-> skip, rate |-> rate, base |-> base,
                  vat |-> IF isFinite(ln) /\ isFinite(base)
                          THEN Num(round2(ln.v - base.v, 1)) ELSE NaN,
                  gross |-> ln]
        ELSE LET base == round2Num(ln)
                 vat == IF isFinite(qty) /\ isFinite(unitPrice) /\ isFinite(rate)
                        THEN Num(round2(qty.v * unitPrice.v * rate.v, 10000)) ELSE NaN
             IN  [skipped |-> skip, rate |-> rate, base |-> base, vat |-> vat,
                  gross |-> addRound(base, vat)]

\* invoice detail page, computeVatBreakdown: body of the loop.  The rate is the
\* stored rate or the default; the VAT type is not read.
invoicePageLine(it, dflt, incl) ==
    LET rate == Coalesce(it.vat_rate, dflt)
        qty == NumberOf(it.qty)
        unitPrice == NumberOf(it.unit_price)
        ln == mulRound(qty, unitPrice)
        skip == ~isFinite(qty) \/ ~isFinite(unitPrice)
    IN  IF incl
        THEN LET base == inclBase(ln, rate)
             IN  [skipped |-> skip, rate |-> rate, base |-> base,
                  vat |-> IF isFinite(ln) /\ isFinite(base)
                          THEN Num(round2(ln.v - base.v, 1)) ELSE NaN,
                  gross |-> ln]
        ELSE LET base == round2Num(ln)
                 vat == vatOf(base, rate)
             IN  [skipped |-> skip, rate |-> rate, base |-> base, vat |-> vat,
                  gross |-> addRound(base, vat)]

\* invoice detail page: the loop of computeVatBreakdown over the first n items
RECURSIVE computeVatBreakdownLoop(_, _, _, _)
computeVatBreakdownLoop(its, dflt, incl, n) ==
    IF n = 0 THEN [baseSubtotal |-> Num(0), grossTotal |-> Num(0), perRate |-> << >>]
    ELSE LET acc == computeVatBreakdownLoop(its, dflt, incl, n - 1)
             l == invoicePageLine(its[n], dflt, incl)
         IN  IF l.skipped THEN acc
             ELSE [baseSubtotal |-> addRound(acc.baseSubtotal, l.base),
                   grossTotal |-> addRound(acc.grossTotal, l.gross),
                   perRate |-> mapAdd(acc.perRate, l.rate, l.base, l.vat)]

\* invoice detail page: computeVatBreakdown(items, defaultVatRate, pricesIncludeVat)
computeVatBreakdown(its, dflt, incl) ==
    LET acc == computeVatBreakdownLoop(its, dflt, incl, Len(its))
        breakdown == sortByRate(acc.perRate)
    IN  [baseSubtotal |-> acc.baseSubtotal,
         grossTotal |-> acc.grossTotal,
         vatTotal |-> round2Num(sumVat(breakdown)),
         breakdown |-> breakdown]

\* the row mapping applied to each row of the select
loadItems(raw) == [i \in 1..Len(raw) |-> loadItem(raw[i])]

----------------------------------------------------------------------------
(* SpecLine: one stored row, classified by each copy of the per-line code *)

Row(q, p, ty, r) == [qty |-> q, unit_price |-> p, vat_type |-> ty, vat_rate |-> r]

LineQtys == {Num(100), Num(50), Num(-100), Bad}
LinePrices == {Num(12100), Num(50), Str(10000)}
LineTypes == VatTypes \cup {NullType, "UNKNOWN_TAG"}
LineRates == {Null, Num(0), Num(6), Num(9), Num(21), Num(-5), NaN, Str(21), Bad}
LineDefaults == {Num(21), Num(9), Num(0), NaN}

NoLine == [skipped |-> TRUE, vatType |-> "none", rate |-> NaN, net |-> NaN, vat |-> NaN]

NotRounded == << >>

\* a row of the invoice_totals view as the dashboard selects it
TotalsRow(sub, rate, incl) ==
    [subtotal |-> sub, vat_rate |-> rate, prices_include_vat |-> incl]

\* an exact amount n/d cents (d > 0); t = "nan" for a non-finite result
Frac(n, d) == [t |-> "num", n |-> n, d |-> d]
FracNaN == [t |-> "nan", n |-> 0, d |-> 1]

NoSummary == [subtotal |-> FracNaN, vatAmount |-> FracNaN, total |-> FracNaN]

\* the values a specification's variables keep while another one runs
LineIdle ==
    /\ line = Row(Num(100), Num(10000), "NL_21", Num(21))
    /\ defRate = Num(21)
    /\ lview = "none"
    /\ lout = NoLine

TotalsIdle ==
    /\ items = << >>
    /\ pricesIncludeVat = FALSE
    /\ defaultVatRate = Num(21)
    /\ view = "none"
    /\ out = [subtotal |-> Num(0)]
    /\ shown = << >>

RoundIdle ==
    /\ rx = 0
    /\ rpos = NotRounded
    /\ rneg = NotRounded

\* null in a timestamp, invoice_number, quote_id or original_invoice_id column
NoTime == 0
NoNumber == 0
NoId == 0

Procs == {1, 2}

NoCall == [pc |-> "idle"]
NoOutcome == [caller |-> "none", quoteId |-> NoId, outcome |-> "none"]

DbIdle ==
    /\ invoices = << >>
    /\ invItems = << >>
    /\ now = 1

ConvertIdle ==
    /\ quote = [user_id |-> "u1", status |-> "draft"]
    /\ quoteItems = << >>
    /\ conv = [p \in Procs |-> NoCall]
    /\ lastConvert = NoOutcome

SendIdle == sending = [p \in Procs |-> NoCall]

EvalIdle ==
    /\ elines = << >>
    /\ ephase = "idle"
    /\ epos = 0
    /\ elocals = LoopStart
    /\ eresults = << >>

\* the values the dashboard summary's variables keep while another
\* specification runs
SummaryIdle ==
    /\ trow = TotalsRow(Null, Null, FALSE)
    /\ sview = "none"
    /\ sout = NoSummary

InitLine ==
    /\ SummaryIdle
    /\ EvalIdle
    /\ DbIdle
    /\ ConvertIdle
    /\ line \in {Row(q, p, ty, r) : q \in LineQtys, p \in LinePrices,
                                    ty \in LineTypes, r \in LineRates}
    /\ defRate \in LineDefaults
    /\ lview = "none"
    /\ lout = NoLine
    /\ items = << >>
    /\ pricesIncludeVat = FALSE
    /\ defaultVatRate = Num(21)
    /\ view = "none"
    /\ out = [subtotal |-> Num(0)]
    /\ shown = << >>
    /\ rx = 0
    /\ rpos = NotRounded
    /\ rneg = NotRounded
    /\ SendIdle

LineQuotePage ==
    /\ lview' = "quotePage"
    /\ lout' = quotePageLine(loadItem(line), defRate)
    /\ UNCHANGED <<line, defRate, totalsVars, roundVars, summaryVars, evalVars, dbVars, convertVars, sendVars>>

LineInvoicePdf ==
    /\ lview' = "invoicePdf"
    /\ lout' = invoicePdfLine(loadItem(line))
    /\ UNCHANGED <<line, defRate, totalsVars, roundVars, summaryVars, evalVars, dbVars, convertVars, sendVars>>

LineDashboard ==
    /\ lview' = "dashboard"
    /\ lout' = dashboardLine(line)
    /\ UNCHANGED <<line, defRate, totalsVars, roundVars, summaryVars, evalVars, dbVars, convertVars, sendVars>>

LineQuoteList ==
    /\ lview' = "quoteList"
    /\ lout' = quoteListLine(line)
    /\ UNCHANGED <<line, defRate, totalsVars, roundVars, summaryVars, evalVars, dbVars, convertVars, sendVars>>

NextLine == LineQuotePage \/ LineInvoicePdf \/ LineDashboard \/ LineQuoteList

SpecLine == InitLine /\ [][NextLine]_vars

\* the stored tag as every copy reads it
lineType == vatTypeOf(line.vat_type)

\* the fallback the copy that ran works with: the quote detail page takes the
\* document's, the others are fixed at 21
lineFallback ==
    IF lview = "quotePage" THEN (IF isFinite(defRate) THEN defRate ELSE Num(21))
    ELSE Num(21)

\* C1: in every copy, a line of one of the three zero-rate types gets rate 0
\* whatever its stored rate and the default rate are, and a line that is
\* aggregated with a finite amount adds 0 VAT.
C1_ZeroRateDominance ==
    (lview # "none" /\ lineType \in ZeroVatTypes) =>
        /\ lout.rate = Num(0)
        /\ (isFinite(lout.net) => lout.vat = Num(0))

C1_Witness ==
    /\ lview = "invoicePdf"
    /\ line.vat_type = "EU_B2B_REVERSE_CHARGE"
    /\ line.vat_rate = Num(21)
    /\ ~lout.skipped
    /\ lout.net = Num(12100)
    /\ lout.vat = Num(0)

\* C3: in every copy, a line whose stored rate is null gets the fallback default
\* rate when its type is NL_21 or FOREIGN_LOCAL_VAT, and 9 when it is NL_9_WONING.
C3_NullRateIsAbsent ==
    (lview # "none" /\ line.vat_rate = Null) =>
        /\ (lineType \in {"NL_21", "FOREIGN_LOCAL_VAT"} => lout.rate = lineFallback)
        /\ (lineType = "NL_9_WONING" => lout.rate = Num(9))

\* C3 on the quote detail page alone, where it holds
C3_QuotePageNullRate ==
    (lview = "quotePage" /\ line.vat_rate = Null) =>
        /\ (lineType \in {"NL_21", "FOREIGN_LOCAL_VAT"} => lout.rate = lineFallback)
        /\ (lineType = "NL_9_WONING" => lout.rate = Num(9))

lineResult(v, ln) ==
    IF v = "quotePage" THEN quotePageLine(loadItem(ln), defRate)
    ELSE IF v = "invoicePdf" THEN invoicePdfLine(loadItem(ln))
    ELSE IF v = "dashboard" THEN dashboardLine(ln)
    ELSE quoteListLine(ln)

\* C13: a line whose VAT type is null or not one of the six known tags is
\* treated exactly as an NL_21 line with the same stored rate, quantity and
\* price: same effective rate, net and VAT, no notice flag raised, and it is
\* skipped only if the NL_21 line is.
C13_UnknownTypeIsStandard ==
    (lview # "none" /\ line.vat_type \notin VatTypes) =>
        LET std == lineResult(lview, [line EXCEPT !.vat_type = "NL_21"]) IN
        /\ lout.rate = std.rate
        /\ lout.net = std.net
        /\ lout.vat = std.vat
        /\ lout.skipped = std.skipped
        /\ lout.vatType \notin ZeroVatTypes

C13_Witness ==
    /\ lview = "invoicePdf"
    /\ line.vat_type = "UNKNOWN_TAG"
    /\ line.vat_rate = Num(9)
    /\ line.qty = Num(100)
    /\ line.unit_price = Num(12100)
    /\ ~lout.skipped
    /\ lout.rate = Num(9)
    /\ lout.vat = Num(1089)

----------------------------------------------------------------------------
(* SpecTotals: the stored rows of one document, and each totals computation *)

MaxLines == 3

\* Rows as the add-item forms store them (finite qty, price >= 0, rate >= 0),
\* among them half a unit at 0.99 (a half cent), a credit row with the negated
\* quantity, a legacy row without type and rate, a reverse-charge row with a
\* stale stored rate, and a row whose quantity does not parse.
TotalsRows ==
    {Row(Num(100), Num(12100), "NL_21", Num(21)),
     Row(Num(100), Num(10000), "NL_21", Num(21)),
     Row(Num(100), Num(10000), "NL_9_WONING", Num(9)),
     Row(Num(50), Num(99), "NL_21", Num(21)),
     Row(Num(-50), Num(99), "NL_21", Num(21)),
     Row(Num(100), Num(50000), "NL_REVERSE_CHARGE", Num(0)),
     Row(Num(100), Num(10000), "EU_B2B_REVERSE_CHARGE", Num(21)),
     Row(Num(150), Num(333), "NON_EU_OUTSIDE_SCOPE", Num(0)),
     Row(Num(100), Num(10000), NullType, Null),
     Row(Bad, Num(5000), "NL_REVERSE_CHARGE", Num(0))}

TotalsDefaults == {Num(21), Num(9)}

RowLists == UNION {[1..n -> TotalsRows] : n \in 0..MaxLines}

InitTotals ==
    /\ SummaryIdle
    /\ EvalIdle
    /\ DbIdle
    /\ ConvertIdle
    /\ items \in RowLists
    /\ pricesIncludeVat \in BOOLEAN
    /\ defaultVatRate \in TotalsDefaults
    /\ view = "none"
    /\ out = [subtotal |-> Num(0)]
    /\ shown = << >>
    /\ line = Row(Num(100), Num(10000), "NL_21", Num(21))
    /\ defRate = Num(21)
    /\ lview = "none"
    /\ lout = NoLine
    /\ rx = 0
    /\ rpos = NotRounded
    /\ rneg = NotRounded
    /\ SendIdle

\* the two filters of the documents: Number.isFinite(r.rate), and
\* round2(r.rate) !== 0 (r.rate !== 0 on the quote detail page); rates are
\* whole percents here, which round2 leaves alone
finiteRate(r) == isFinite(r.rate)
nonZeroRate(r) == r.rate # Num(0)

\* InvoicePdfDocument (and, with the same code, QuotePdfDocument): the VAT
\* lines of the totals block.  vat_rate is the optional totals.vat_rate, Null
\* when the route does not pass it.
pdfVatRows(vat_breakdown, vat_rate, vat_amount) ==
    LET breakdown == SelectSeq(vat_breakdown, finiteRate)
        breakdownNonZero == SelectSeq(breakdown, nonZeroRate)
    IN  IF Len(breakdownNonZero) > 0
        THEN [k \in 1..Len(breakdownNonZero) |->
                [label |-> breakdownNonZero[k].rate,
                 amount |-> breakdownNonZero[k].vat]]
        ELSE <<[label |-> IF isFinite(vat_rate) THEN vat_rate ELSE Num(0),
                amount |-> vat_amount]>>

\* quote detail page: the VAT lines of the totals block; the line shown when
\* no rate is non-zero has no rate in its label and the literal amount 0
quotePageVatRows(vatBreakdown) ==
    LET nz == SelectSeq(vatBreakdown, nonZeroRate)
    IN  IF Len(nz) > 0
        THEN [k \in 1..Len(nz) |-> [label |-> nz[k].rate, amount |-> nz[k].vat]]
        ELSE <<[label |-> Null, amount |-> Num(0)]>>

\* invoice detail page: the VAT lines of the totals block; every row of the
\* breakdown is shown, a rate-0 row too
invoicePageVatRows(breakdown) ==
    IF Len(breakdown) = 0 THEN <<[label |-> Null, amount |-> Num(0)]>>
    ELSE [k \in 1..Len(breakdown) |->
            [label |-> breakdown[k].rate, amount |-> breakdown[k].vat]]

RenderQuotePage ==
    /\ view = "none"
    /\ view' = "quotePage"
    /\ out' = quotePageTotals(loadItems(items), defaultVatRate)
    /\ shown' = quotePageVatRows(out'.vatBreakdown)
    /\ UNCHANGED <<items, pricesIncludeVat, defaultVatRate, lineVars, roundVars, summaryVars, evalVars, dbVars, convertVars, sendVars>>

RenderInvoicePdf ==
    /\ view = "none"
    /\ view' = "invoicePdf"
    /\ out' = calcTotals(loadItems(items))
    /\ shown' = pdfVatRows(out'.vat_breakdown, Null, out'.vat_amount)
    /\ UNCHANGED <<items, pricesIncludeVat, defaultVatRate, lineVars, roundVars, summaryVars, evalVars, dbVars, convertVars, sendVars>>

RenderInvoicePage ==
    /\ view = "none"
    /\ view' = "invoicePage"
    /\ out' = computeVatBreakdown(loadItems(items), defaultVatRate, pricesIncludeVat)
    /\ shown' = invoicePageVatRows(out'.breakdown)
    /\ UNCHANGED <<items, pricesIncludeVat, defaultVatRate, lineVars, roundVars, summaryVars, evalVars, dbVars, convertVars, sendVars>>

RenderDashboard ==
    /\ view = "none"
    /\ view' = "dashboard"
    /\ out' = calcInvoiceTotalFromItems(items)
    /\ shown' = << >>
    /\ UNCHANGED <<items, pricesIncludeVat, defaultVatRate, lineVars, roundVars, summaryVars, evalVars, dbVars, convertVars, sendVars>>

RenderQuoteList ==
    /\ view = "none"
    /\ view' = "quoteList"
    /\ out' = calcTotalFromItems(items)
    /\ shown' = << >>
    /\ UNCHANGED <<items, pricesIncludeVat, defaultVatRate, lineVars, roundVars, summaryVars, evalVars, dbVars, convertVars, sendVars>>

\* the response is sent and the request ends: its locals are gone
Respond ==
    /\ view # "none"
    /\ view' = "none"
    /\ out' = [subtotal |-> Num(0)]
    /\ shown' = << >>
    /\ UNCHANGED <<items, pricesIncludeVat, defaultVatRate, lineVars, roundVars, summaryVars, evalVars, dbVars, convertVars, sendVars>>

NextTotals ==
    \/ Respond
    \/ RenderQuotePage
    \/ RenderInvoicePdf
    \/ RenderInvoicePage
    \/ RenderDashboard
    \/ RenderQuoteList

SpecTotals == InitTotals /\ [][NextTotals]_vars

----------------------------------------------------------------------------
(* Properties of the totals computations *)

\* nearest cent of n/d cents (d > 0), a half cent going up
ExpRound(n, d) == (2 * n + d) \div (2 * d)

RECURSIVE SumFn(_, _)
SumFn(f, n) == IF n = 0 THEN 0 ELSE f[n] + SumFn(f, n - 1)

\* quantity or unit price not a finite number after coercion
malformed(r) == ~isFinite(toNumber(r.qty)) \/ ~isFinite(toNumber(r.unit_price))

wellFormed(r) == ~malformed(r)

\* the stored rows the computation that ran does not skip
Aggregated ==
    {i \in 1..Len(items) : view = "quotePage" \/ ~malformed(items[i])}

\* the effective rate the computation that ran gives stored row i
rateOfRow(i) ==
    IF view = "quotePage" THEN quotePageLine(loadItem(items[i]), defaultVatRate).rate
    ELSE IF view = "invoicePdf" THEN invoicePdfLine(loadItem(items[i])).rate
    ELSE IF view = "invoicePage"
        THEN invoicePageLine(loadItem(items[i]), defaultVatRate, pricesIncludeVat).rate
    ELSE IF view = "dashboard" THEN dashboardLine(items[i]).rate
    ELSE quoteListLine(items[i]).rate

typeOfRow(i) == vatTypeOf(items[i].vat_type)

outRows ==
    IF view = "quotePage" THEN out.vatBreakdown
    ELSE IF view = "invoicePdf" THEN out.vat_breakdown
    ELSE out.breakdown

outSubtotal == IF view = "invoicePage" THEN out.baseSubtotal ELSE out.subtotal

outVat ==
    IF view = "invoicePage" THEN out.vatTotal
    ELSE IF view = "invoicePdf" THEN out.vat_amount
    ELSE out.vatAmount

outTotal == IF view = "invoicePage" THEN out.grossTotal ELSE out.total

\* what the computation `v` returns for the rows `its` of this document
totalsFor(v, its) ==
    IF v = "quotePage" THEN quotePageTotals(loadItems(its), defaultVatRate)
    ELSE IF v = "invoicePdf" THEN calcTotals(loadItems(its))
    ELSE IF v = "invoicePage"
        THEN computeVatBreakdown(loadItems(its), defaultVatRate, pricesIncludeVat)
    ELSE IF v = "dashboard" THEN calcInvoiceTotalFromItems(its)
    ELSE calcTotalFromItems(its)

Row121 == Row(Num(100), Num(12100), "NL_21", Num(21))
Row100at21 == Row(Num(100), Num(10000), "NL_21", Num(21))
Row100at9 == Row(Num(100), Num(10000), "NL_9_WONING", Num(9))

C5_MalformedLineSkipped ==
    view # "none" =>
        /\ out = totalsFor(view, SelectSeq(items, wellFormed))
        /\ isFinite(outSubtotal) /\ isFinite(outVat) /\ isFinite(outTotal)

\* C5 for the four computations that have the finiteness guard, where it holds
C5_GuardedComputationsSkip ==
    view \in {"invoicePdf", "invoicePage", "dashboard", "quoteList"} =>
        /\ out = totalsFor(view, SelectSeq(items, wellFormed))
        /\ isFinite(outSubtotal) /\ isFinite(outVat) /\ isFinite(outTotal)

\* the rate the invoice detail page gives stored row i, in percent
pageRate(i) == Coalesce(nullOrNumber(items[i].vat_rate), defaultVatRate).v

\* C6: on the invoice detail page with prices including VAT, each aggregated
\* line has gross round2(qty * unitPrice), base round2(gross / (1 + rate/100))
\* and VAT gross - base; subtotal, breakdown rows and VAT amount are the sums
\* of these, and the total is the sum of the line grosses.  One line of 1 x
\* 121.00 at 21% gives base 100.00, VAT 21.00, total 121.00.
C6_InclusivePricing ==
    (view = "invoicePage" /\ pricesIncludeVat) =>
        LET n == Len(items)
            gross == [i \in 1..n |->
                        IF malformed(items[i]) THEN 0
                        ELSE ExpRound(toNumber(items[i].qty).v
                                        * toNumber(items[i].unit_price).v, 100)]
            base == [i \in 1..n |->
                        IF malformed(items[i]) THEN 0
                        ELSE ExpRound(gross[i] * 100, 100 + pageRate(i))]
            vat == [i \in 1..n |-> gross[i] - base[i]]
        IN  /\ out.grossTotal = Num(SumFn(gross, n))
            /\ out.baseSubtotal = Num(SumFn(base, n))
            /\ out.vatTotal = Num(SumFn(vat, n))
            /\ \A k \in 1..Len(out.breakdown) :
                LET r == out.breakdown[k].rate.v
                    mine(i) == ~malformed(items[i]) /\ pageRate(i) = r
                IN  /\ out.breakdown[k].base =
                        Num(SumFn([i \in 1..n |-> IF mine(i) THEN base[i] ELSE 0], n))
                    /\ out.breakdown[k].vat =
                        Num(SumFn([i \in 1..n |-> IF mine(i) THEN vat[i] ELSE 0], n))
            /\ (items = <<Row121>> =>
                    /\ out.baseSubtotal = Num(10000)
                    /\ out.vatTotal = Num(2100)
                    /\ out.grossTotal = Num(12100)
                    /\ out.breakdown =
                        <<[rate |-> Num(21), base |-> Num(10000), vat |-> Num(2100)]>>)

C6_Witness ==
    /\ view = "invoicePage"
    /\ pricesIncludeVat
    /\ items = <<Row121, Row100at21>>
    /\ out.baseSubtotal = Num(18264)
    /\ out.vatTotal = Num(3836)
    /\ out.grossTotal = Num(22100)

\* C7: with prices excluding VAT (invoice detail page and invoice PDF route),
\* each aggregated line has base round2(qty * unitPrice) and VAT
\* round2(base * rate / 100), both rounded before they are added up.  One line
\* of 1 x 121.00 at 21% gives base 121.00, VAT 25.41, total 146.41.
C7_ExclusivePricing ==
    (view \in {"invoicePage", "invoicePdf"} /\ ~pricesIncludeVat) =>
        LET n == Len(items)
            base == [i \in 1..n |->
                        IF malformed(items[i]) THEN 0
                        ELSE ExpRound(toNumber(items[i].qty).v
                                        * toNumber(items[i].unit_price).v, 100)]
            vat == [i \in 1..n |->
                        IF malformed(items[i]) THEN 0
                        ELSE ExpRound(base[i] * rateOfRow(i).v, 100)]
        IN  /\ outSubtotal = Num(SumFn(base, n))
            /\ outVat = Num(SumFn(vat, n))
            /\ outTotal = Num(SumFn(base, n) + SumFn(vat, n))
            /\ \A k \in 1..Len(outRows) :
                LET mine(i) == ~malformed(items[i]) /\ rateOfRow(i) = outRows[k].rate
                IN  /\ outRows[k].base =
                        Num(SumFn([i \in 1..n |-> IF mine(i) THEN base[i] ELSE 0], n))
                    /\ outRows[k].vat =
                        Num(SumFn([i \in 1..n |-> IF mine(i) THEN vat[i] ELSE 0], n))
            /\ (items = <<Row121>> =>
                    /\ outSubtotal = Num(12100)
                    /\ outVat = Num(2541)
                    /\ outTotal = Num(14641))

C7_Witness ==
    /\ view = "invoicePage"
    /\ ~pricesIncludeVat
    /\ items = <<Row121, Row(Num(50), Num(99), "NL_21", Num(21))>>
    /\ out.baseSubtotal = Num(12150)
    /\ out.vatTotal = Num(2552)
    /\ out.grossTotal = Num(14702)

\* C8: the breakdown has exactly one row per distinct effective rate among the
\* aggregated lines, rate 0 included, in strictly ascending rate order whatever
\* the order of the lines.  100 at 21% and 100 at 9% give
\* [{9,100,9},{21,100,21}], subtotal 200, VAT 30, total 230.
C8_BreakdownRows ==
    view \in {"quotePage", "invoicePdf", "invoicePage"} =>
        /\ \A k \in 1..Len(outRows) : isFinite(outRows[k].rate)
        /\ \A k \in 1..(Len(outRows) - 1) : outRows[k].rate.v < outRows[k + 1].rate.v
        /\ {outRows[k].rate : k \in 1..Len(outRows)} = {rateOfRow(i) : i \in Aggregated}
        /\ ((view = "invoicePdf" /\ items \in {<<Row100at21, Row100at9>>,
                                               <<Row100at9, Row100at21>>}) =>
                out = [subtotal |-> Num(20000), vat_amount |-> Num(3000),
                       total |-> Num(23000),
                       vat_breakdown |->
                          <<[rate |-> Num(9), base |-> Num(10000), vat |-> Num(900)],
                            [rate |-> Num(21), base |-> Num(10000), vat |-> Num(2100)]>>,
                       notices |-> << >>])

C8_Witness ==
    /\ view = "invoicePdf"
    /\ items = <<Row100at21, Row100at9, Row(Num(100), Num(50000), "NL_REVERSE_CHARGE", Num(0))>>
    /\ Len(out.vat_breakdown) = 3
    /\ out.vat_breakdown[1].rate = Num(0)
    /\ out.vat_breakdown[2].rate = Num(9)
    /\ out.vat_breakdown[3].rate = Num(21)

\* C9: the notices are the domestic reverse-charge notice iff an aggregated
\* line has type NL_REVERSE_CHARGE, the intra-EU notice iff one has
\* EU_B2B_REVERSE_CHARGE, the outside-scope notice iff one has
\* NON_EU_OUTSIDE_SCOPE; each once, in that order, whatever the line order.
C9_Notices ==
    view \in {"quotePage", "invoicePdf"} =>
        LET has(ty) == \E i \in Aggregated : typeOfRow(i) = ty
        IN  out.notices =
                (IF has("NL_REVERSE_CHARGE") THEN <<NoticeNl>> ELSE << >>)
                \o (IF has("EU_B2B_REVERSE_CHARGE") THEN <<NoticeEu>> ELSE << >>)
                \o (IF has("NON_EU_OUTSIDE_SCOPE") THEN <<NoticeOutside>> ELSE << >>)

C9_Witness ==
    /\ view = "invoicePdf"
    /\ items = <<Row(Num(150), Num(333), "NON_EU_OUTSIDE_SCOPE", Num(0)),
                 Row(Num(100), Num(10000), "EU_B2B_REVERSE_CHARGE", Num(21)),
                 Row(Num(100), Num(50000), "NL_REVERSE_CHARGE", Num(0))>>
    /\ out.notices = <<NoticeNl, NoticeEu, NoticeOutside>>

----------------------------------------------------------------------------
(* SpecRound: round2 on an amount and on its negation *)

MaxTenths == 60

InitRound ==
    /\ SummaryIdle
    /\ EvalIdle
    /\ DbIdle
    /\ ConvertIdle
    /\ rx \in (-MaxTenths)..MaxTenths
    /\ rpos = NotRounded
    /\ rneg = NotRounded
    /\ line = Row(Num(100), Num(10000), "NL_21", Num(21))
    /\ defRate = Num(21)
    /\ lview = "none"
    /\ lout = NoLine
    /\ items = << >>
    /\ pricesIncludeVat = FALSE
    /\ defaultVatRate = Num(21)
    /\ view = "none"
    /\ out = [subtotal |-> Num(0)]
    /\ shown = << >>
    /\ SendIdle

\* round2(x) for x = rx / 10 cents
RoundAmount ==
    /\ rpos = NotRounded
    /\ rpos' = <<round2(rx, 10)>>
    /\ UNCHANGED <<rx, rneg, lineVars, totalsVars, summaryVars, evalVars, dbVars, convertVars, sendVars>>

\* round2(-x), as for the same line with the quantity negated
RoundNegated ==
    /\ rneg = NotRounded
    /\ rneg' = <<round2(-rx, 10)>>
    /\ UNCHANGED <<rx, rpos, lineVars, totalsVars, summaryVars, evalVars, dbVars, convertVars, sendVars>>

NextRound == RoundAmount \/ RoundNegated

SpecRound == InitRound /\ [][NextRound]_vars

\* C10: round2 rounds to the nearest cent with ties away from zero for both
\* signs: round2(-x) = -round2(x) for every amount x.
C10_Round2TiesAwayFromZero ==
    (rpos # NotRounded /\ rneg # NotRounded) => rneg[1] = -rpos[1]

\* what round2 does: the nearest cent, a half cent going toward plus infinity
C10_Round2HalfUp ==
    rpos # NotRounded =>
        /\ 2 * (10 * rpos[1] - rx) <= 10
        /\ 2 * (rx - 10 * rpos[1]) < 10

----------------------------------------------------------------------------
(* SpecSummary: the dashboard's amount of one invoice, computed from its   *)
(* invoice_totals row *)

\* calcTotals of the dashboard page: no rounding, and a guard on the sign of
\* the subtotal.  subtotal in cents, vatRate in percent, both already
\* coerced by toNumber (vatRate > -100, so the divisor is positive).
calcTotals_summaryNoGuard(subtotal, vatRate, incl) ==
    IF ~isFinite(subtotal) \/ ~isFinite(vatRate)
        THEN [subtotal |-> FracNaN, vatAmount |-> FracNaN, total |-> FracNaN]
    ELSE IF incl
        THEN [subtotal |-> Frac(subtotal.v, 1),
              vatAmount |-> Frac(subtotal.v * vatRate.v, 100 + vatRate.v),
              total |-> Frac(subtotal.v, 1)]
    ELSE [subtotal |-> Frac(subtotal.v, 1),
          vatAmount |-> Frac(subtotal.v * vatRate.v, 100),
          total |-> Frac(subtotal.v * 100 + subtotal.v * vatRate.v, 100)]

calcTotals_summary(subtotal, vatRate, incl) ==
    IF isFinite(subtotal) /\ subtotal.v <= 0
        THEN [subtotal |-> Frac(subtotal.v, 1), vatAmount |-> Frac(0, 1),
              total |-> Frac(0, 1)]
    ELSE calcTotals_summaryNoGuard(subtotal, vatRate, incl)

MaxSubtotal == 12

SummarySubtotals ==
    {Num(100 * k) : k \in (-MaxSubtotal)..MaxSubtotal} \cup {Null, Str(12100), Bad}
SummaryRates == {Num(21), Num(9), Num(0), Str(21), Null}

InitSummary ==
    /\ trow \in {TotalsRow(sub, r, incl) : sub \in SummarySubtotals,
                                          r \in SummaryRates, incl \in BOOLEAN}
    /\ sview = "none"
    /\ sout = NoSummary
    /\ LineIdle
    /\ TotalsIdle
    /\ RoundIdle
    /\ EvalIdle
    /\ DbIdle
    /\ ConvertIdle
    /\ SendIdle

\* the loop body of AppPage for one invoice
SummaryAmount ==
    /\ sview = "none"
    /\ sview' = "summary"
    /\ sout' = calcTotals_summary(toNumber(Coalesce(trow.subtotal, Num(0))),
                                  toNumber(Coalesce(trow.vat_rate, Num(21))),
                                  trow.prices_include_vat)
    /\ UNCHANGED <<trow, lineVars, totalsVars, roundVars, evalVars, dbVars, convertVars, sendVars>>

\* the page is sent and the request ends
SummaryRespond ==
    /\ sview = "summary"
    /\ sview' = "none"
    /\ sout' = NoSummary
    /\ UNCHANGED <<trow, lineVars, totalsVars, roundVars, evalVars, dbVars, convertVars, sendVars>>

NextSummary == SummaryAmount \/ SummaryRespond

SpecSummary == InitSummary /\ [][NextSummary]_vars

summarySubtotal == toNumber(Coalesce(trow.subtotal, Num(0)))
summaryRate == toNumber(Coalesce(trow.vat_rate, Num(21)))

\* C11: lines with a negative quantity or price are aggregated like any other
\* line, and no totals computation, the dashboard's included, replaces a
\* non-positive result by zero: the dashboard's amount of an invoice with a
\* finite subtotal s and rate r is s + s * r / 100 (s when prices include
\* VAT), whatever the sign of s.
C11_NegativeAggregated ==
    (sview = "summary" /\ isFinite(summarySubtotal) /\ isFinite(summaryRate)) =>
        /\ sout.total.t = "num"
        /\ sout.total.n * 100 = sout.total.d *
              (IF trow.prices_include_vat THEN summarySubtotal.v * 100
               ELSE summarySubtotal.v * (100 + summaryRate.v))

\* C11 for the two item-level computations the claim names, where it holds:
\* a document of one line -0.5 x 0.99 at 21% has a negative subtotal, VAT
\* amount and total
C11_ItemTotalsKeepNegatives ==
    (view \in {"invoicePdf", "dashboard"}
        /\ items = <<Row(Num(-50), Num(99), "NL_21", Num(21))>>) =>
        /\ outSubtotal.v < 0
        /\ outVat.v < 0
        /\ outTotal.v = outSubtotal.v + outVat.v

----------------------------------------------------------------------------
(* Further properties of the totals computations (SpecTotals) *)

RowBadQty == Row(Bad, Num(5000), "NL_REVERSE_CHARGE", Num(0))

\* C12: for an empty list of lines, and for a list in which every line is
\* skipped, every totals computation returns subtotal 0, VAT amount 0 and
\* total 0, with an empty breakdown and an empty notices list where it
\* returns them, in both pricing modes.
C12_EmptyDocument ==
    (view # "none" /\ Aggregated = {}) =>
        /\ outSubtotal = Num(0)
        /\ outVat = Num(0)
        /\ outTotal = Num(0)
        /\ (view \in {"quotePage", "invoicePdf", "invoicePage"} => outRows = << >>)
        /\ (view \in {"quotePage", "invoicePdf"} => out.notices = << >>)

C12_Witness ==
    /\ view = "invoicePdf"
    /\ items = <<RowBadQty, RowBadQty>>
    /\ Aggregated = {}
    /\ out.vat_breakdown = << >>

RECURSIVE sumShown(_)
sumShown(rows) ==
    IF rows = << >> THEN 0
    ELSE rows[Len(rows)].amount.v + sumShown(SubSeq(rows, 1, Len(rows) - 1))

\* C14: the VAT rows shown on screen and in the PDF are exactly the breakdown
\* rows with rate # 0 when there is one; when there is none (breakdown empty
\* or only rate 0) exactly one VAT row is shown, labelled with the fallback
\* default rate; in both cases the amounts shown sum to the VAT amount.
\* Taken on documents without a malformed line.
C14_DisplayConvention ==
    (/\ view \in {"quotePage", "invoicePdf", "invoicePage"}
     /\ \A i \in 1..Len(items) : ~malformed(items[i])) =>
        LET nz == SelectSeq(outRows, nonZeroRate) IN
        /\ IF Len(nz) > 0
           THEN shown = [k \in 1..Len(nz) |->
                            [label |-> nz[k].rate, amount |-> nz[k].vat]]
           ELSE Len(shown) = 1 /\ shown[1].label = defaultVatRate
        /\ sumShown(shown) = outVat.v

\* the part of C14 that holds in all three displays: the amounts shown sum to
\* the VAT amount, and a row with a non-zero rate is always shown
C14_ShownAmountsFoot ==
    (/\ view \in {"quotePage", "invoicePdf", "invoicePage"}
     /\ \A i \in 1..Len(items) : ~malformed(items[i])) =>
        /\ sumShown(shown) = outVat.v
        /\ \A k \in 1..Len(outRows) : outRows[k].rate # Num(0) =>
                \E j \in 1..Len(shown) :
                    shown[j] = [label |-> outRows[k].rate, amount |-> outRows[k].vat]

\* the invoice PDF alone: the non-zero rows, or one row labelled 0%
C14_InvoicePdfRows ==
    (view = "invoicePdf") =>
        LET nz == SelectSeq(outRows, nonZeroRate) IN
        IF Len(nz) > 0
        THEN shown = [k \in 1..Len(nz) |-> [label |-> nz[k].rate, amount |-> nz[k].vat]]
        ELSE shown = <<[label |-> Num(0), amount |-> out.vat_amount]>>

----------------------------------------------------------------------------
(* SpecEval: calcTotals of the invoice PDF route called repeatedly on one  *)
(* line list, one loop iteration at a time *)

MaxEvalLines == 2
MaxEvals == 2

\* A plausible slip: subtotal, Map and flags kept outside the function, so a
\* call goes on from what the previous call left.
localsCarriedOver(left) == left

\* let subtotal = 0; const vatBreakdown = new Map(); const flags = {...}:
\* a call starts from fresh locals, whatever an earlier call left.
localsAtEntry(left) == LoopStart

\* what calcTotals returns from the locals its loop ends with
calcTotalsReturn(acc) ==
    LET vat_amount == round2Num(sumVat(acc.rows))
    IN  [subtotal |-> acc.subtotal,
         vat_amount |-> vat_amount,
         total |-> addRound(acc.subtotal, vat_amount),
         vat_breakdown |-> sortByRate(acc.rows),
         notices |-> noticesOf(acc.hasReverseNl, acc.hasReverseEu, acc.hasOutsideEu)]

InitEval ==
    /\ elines \in {loadItems(raw) :
                      raw \in UNION {[1..n -> TotalsRows] : n \in 0..MaxEvalLines}}
    /\ ephase = "idle"
    /\ epos = 0
    /\ elocals = LoopStart
    /\ eresults = << >>
    /\ LineIdle
    /\ TotalsIdle
    /\ RoundIdle
    /\ SummaryIdle
    /\ DbIdle
    /\ ConvertIdle
    /\ SendIdle

\* calcTotals(lines) is entered
EvalEnter ==
    /\ ephase = "idle"
    /\ Len(eresults) < MaxEvals
    /\ ephase' = "loop"
    /\ epos' = 0
    /\ elocals' = localsAtEntry(elocals)
    /\ UNCHANGED <<elines, eresults, lineVars, totalsVars, roundVars, summaryVars,
                   dbVars, convertVars, sendVars>>

\* one iteration of for (const l of lines)
EvalLine ==
    /\ ephase = "loop"
    /\ epos < Len(elines)
    /\ LET l == invoicePdfLine(elines[epos + 1])
       IN  elocals' = IF l.skipped THEN elocals ELSE loopStep(elocals, l)
    /\ epos' = epos + 1
    /\ UNCHANGED <<elines, ephase, eresults, lineVars, totalsVars, roundVars,
                   summaryVars, dbVars, convertVars, sendVars>>

\* the loop is over: the sums, the notices and the return
EvalReturn ==
    /\ ephase = "loop"
    /\ epos = Len(elines)
    /\ ephase' = "idle"
    /\ eresults' = Append(eresults, calcTotalsReturn(elocals))
    /\ UNCHANGED <<elines, epos, elocals, lineVars, totalsVars, roundVars,
                   summaryVars, dbVars, convertVars, sendVars>>

NextEval == EvalEnter \/ EvalLine \/ EvalReturn

SpecEval == InitEval /\ [][NextEval]_vars

----------------------------------------------------------------------------
(* The invoices and invoice_items tables, and the server actions and form  *)
(* handlers that write them.  An invoice's id is its index in `invoices`;  *)
(* timestamps are clock readings 1, 2, ...; an invoice number INV-0000n is *)
(* the number n.  A handler is one action: it can be run from any page     *)
(* that was rendered with its form, however long ago. *)

MaxInvoices == 2
MaxItems == 2
MaxClock == 2

\* sessions: nobody logged in, the user whose documents these are, and
\* another user
NoUser == "anon"
Owner == "u1"
Callers == {NoUser, Owner, "u2"}

InvoiceStatuses == {"draft", "sent", "paid", "overdue", "cancelled"}

\* const isLocked = !!invoice.locked_at || invoice.status !== "draft"
isLocked(inv) == inv.locked_at # NoTime \/ inv.status # "draft"

\* the rows of `its` that belong to invoice i, in order
itemsOfIn(its, i) ==
    LET mine(x) == x.invoice_id = i IN SelectSeq(its, mine)

\* what the form can submit: quantity, price, VAT type and rate; the first
\* has a quantity the form refuses
FormRows ==
    {Row(Num(0), Num(10000), "NL_21", Num(21)),
     Row(Num(100), Num(10000), "NL_21", Num(21))}

\* the checks of AddInvoiceItemForm.onSubmit on quantity, price and rate
formAccepts(r) ==
    /\ isFinite(r.qty) /\ r.qty.v > 0
    /\ isFinite(r.unit_price) /\ r.unit_price.v >= 0
    /\ isFinite(r.vat_rate) /\ r.vat_rate.v >= 0

\* The trigger on invoice_items the comment in deleteItem speaks of ("als
\* invoice locked is, gooit je DB trigger een error"): a write to an item of
\* an invoice with locked_at set fails.
lockTriggerRejects(i) ==
    /\ i \in 1..Len(invoices)
    /\ invoices[i].locked_at # NoTime

\* createInvoice of the new-invoice page: a draft without a number
CreateInvoice ==
    \E u \in {NoUser, Owner}, hasCustomer \in BOOLEAN :
        /\ u # NoUser
        /\ hasCustomer
        /\ Len(invoices) < MaxInvoices
        /\ invoices' = Append(invoices,
                [user_id |-> u, status |-> "draft", invoice_number |-> NoNumber,
                 issued_at |-> NoTime, locked_at |-> NoTime, quote_id |-> NoId,
                 original_invoice_id |-> NoId, correction_type |-> "none",
                 paid_at |-> NoTime])
        /\ UNCHANGED <<invItems, now, convertVars, lineVars, totalsVars, roundVars,
                       summaryVars, evalVars, sendVars>>

\* AddInvoiceItemForm.onSubmit for the invoice of the page it is on: the
\* checks of the fields and of the session, then the insert
AddItem ==
    \E i \in 1..Len(invoices), r \in FormRows, u \in Callers :
        /\ formAccepts(r)
        /\ u # NoUser
        /\ ~lockTriggerRejects(i)
        /\ Len(invItems) < MaxItems
        /\ invItems' = Append(invItems, [invoice_id |-> i, row |-> r])
        /\ UNCHANGED <<invoices, now, convertVars, lineVars, totalsVars, roundVars,
                       summaryVars, evalVars, sendVars>>

\* deleteItem with the item_id of the k-th stored item
DeleteItem ==
    \E k \in 1..Len(invItems), u \in Callers :
        /\ u # NoUser
        /\ ~lockTriggerRejects(invItems[k].invoice_id)
        /\ invItems' = SubSeq(invItems, 1, k - 1)
                            \o SubSeq(invItems, k + 1, Len(invItems))
        /\ UNCHANGED <<invoices, now, convertVars, lineVars, totalsVars, roundVars,
                       summaryVars, evalVars, sendVars>>

\* the number of the invoice the query for the user's last invoice_number
\* returns (0 when no invoice of the user has one), as match(/\d+$/) reads it
lastInvoiceNumber(u) ==
    LET S == {invoices[j].invoice_number : j \in
                {j \in 1..Len(invoices) : /\ invoices[j].user_id = u
                                           /\ invoices[j].invoice_number # NoNumber}}
    IN  IF S = {} THEN 0 ELSE CHOOSE m \in S : \A x \in S : x <= m

\* A plausible slip: the timestamps written at every change to sent.
needsLockAlways(current) == TRUE

\* if (!current.locked_at)
needsLock(current) == current.locked_at = NoTime

\* A plausible slip: a new number drawn at every change to sent.
needsNumberAlways(current) == TRUE

\* if (!current.invoice_number || current.invoice_number.trim() === "")
needsNumber(current) == current.invoice_number = NoNumber

\* the row after update(patch), for the patch setStatus builds
patched(current, nextStatus, u) ==
    LET a == [current EXCEPT !.status = nextStatus]
        b == IF nextStatus = "sent" /\ needsLock(current)
             THEN [a EXCEPT !.issued_at = now, !.locked_at = now] ELSE a
    IN  IF nextStatus = "sent" /\ needsNumber(current)
        THEN [b EXCEPT !.invoice_number = lastInvoiceNumber(u) + 1] ELSE b

\* setStatus of the invoice detail page for invoice i
SetStatus ==
    \E i \in 1..Len(invoices), nextStatus \in InvoiceStatuses, u \in Callers :
        LET current == invoices[i]
            stamps == nextStatus = "sent" /\ needsLock(current)
        IN  /\ nextStatus \in {"draft", "sent", "paid", "cancelled"}
            /\ u # NoUser
            /\ current.user_id = u
            /\ stamps => now <= MaxClock
            /\ invoices' = [invoices EXCEPT ![i] = patched(current, nextStatus, u)]
            /\ now' = IF stamps THEN now + 1 ELSE now
            /\ UNCHANGED <<invItems, convertVars, lineVars, totalsVars, roundVars,
                           summaryVars, evalVars, sendVars>>

InitInvoice ==
    /\ invoices = << >>
    /\ invItems = << >>
    /\ now = 1
    /\ ConvertIdle
    /\ LineIdle
    /\ TotalsIdle
    /\ RoundIdle
    /\ SummaryIdle
    /\ EvalIdle
    /\ SendIdle

NextInvoice == CreateInvoice \/ AddItem \/ DeleteItem \/ SetStatus

SpecInvoice == InitInvoice /\ [][NextInvoice]_vars

\* C15: the line items of a locked invoice (locked_at set, or a status other
\* than draft) are immutable: no step inserts an item into, or deletes one
\* from, an invoice that is locked.
C15_LockedItemsImmutable ==
    [][\A i \in 1..Len(invoices) :
          isLocked(invoices[i]) => itemsOfIn(invItems', i) = itemsOfIn(invItems, i)]_vars

\* C15 for invoices whose locked_at is set, where the trigger holds it up
C15_StampedItemsImmutable ==
    [][\A i \in 1..Len(invoices) :
          invoices[i].locked_at # NoTime =>
              itemsOfIn(invItems', i) = itemsOfIn(invItems, i)]_vars

----------------------------------------------------------------------------
(* SpecConvert: convertQuoteToInvoice for quote 1, called from two sessions *)
(* at once, with setStatus and createCorrection on the invoices it makes.   *)
(* A call reads (session, quote, linked invoice, quote items, number) in    *)
(* one step and inserts in a second one. *)

QuoteStatuses == {"draft", "sent", "accepted", "declined"}

\* the ids a call can be given: quote 1, and 2 for which there is no row
QuoteIds == {1, 2}

\* the calls that are made: without a session, by another user, for a quote
\* that does not exist, and by the owner for the quote
ConvertCalls ==
    {c \in [caller : Callers, quoteId : QuoteIds] :
        c.quoteId = 1 \/ c.caller = Owner}

\* the quote's rows: none, or one legacy row (qty as text, no vat_type)
QuoteItemLists ==
    {<< >>,
     <<Row(Str(50), Num(99), NullType, Null)>>}

\* the invoices with quote_id = q
linkedTo(q) == {i \in 1..Len(invoices) : invoices[i].quote_id = q}

\* A plausible slip: a quote that was sent is taken too.
quoteConvertibleSent(q) == q.status \in {"accepted", "sent"}

\* the status check: only an accepted quote goes on
quoteConvertible(q) == q.status = "accepted"

\* rpc("next_invoice_number"), a database function: taken to return the
\* number after the user's last one
next_invoice_number(u) == lastInvoiceNumber(u) + 1

\* how the checks of a call end: "throw", "redirect", or "insert" to go on.
\* maybeSingle() gives an error when more than one invoice is linked.
convertChecks(caller, quoteId) ==
    IF caller = NoUser THEN "throw"
    ELSE IF quoteId # 1 THEN "throw"
    ELSE IF quote.user_id # caller THEN "throw"
    ELSE IF ~quoteConvertible(quote) THEN "throw"
    ELSE IF Cardinality(linkedTo(quoteId)) > 1 THEN "throw"
    ELSE IF Cardinality(linkedTo(quoteId)) = 1 THEN "redirect"
    ELSE "insert"

\* the row of invoice_items made from a row of quote_items
copiedItem(it) ==
    Row(toNumber(it.qty), toNumber(it.unit_price), vatTypeOf(it.vat_type),
        nullOrNumber(it.vat_rate))

InitConvert ==
    /\ quote \in [user_id : {Owner}, status : QuoteStatuses]
    /\ quoteItems \in QuoteItemLists
    /\ conv = [p \in Procs |-> NoCall]
    /\ lastConvert = NoOutcome
    /\ DbIdle
    /\ LineIdle
    /\ TotalsIdle
    /\ RoundIdle
    /\ SummaryIdle
    /\ EvalIdle
    /\ SendIdle

\* steps 1 to 5 of convertQuoteToInvoice: the checks and the reads
ConvertBegin(p) ==
    \E call \in ConvertCalls :
        LET caller == call.caller
            quoteId == call.quoteId
            end == convertChecks(caller, quoteId)
        IN
        /\ conv[p].pc = "idle"
        /\ IF end = "insert"
           THEN /\ conv' = [conv EXCEPT ![p] =
                        [pc |-> "insert", caller |-> caller, quoteId |-> quoteId,
                         items |-> quoteItems,
                         invNo |-> next_invoice_number(caller)]]
                /\ UNCHANGED lastConvert
           ELSE /\ lastConvert' =
                        [caller |-> caller, quoteId |-> quoteId, outcome |-> end]
                /\ UNCHANGED conv
        /\ UNCHANGED <<quote, quoteItems, dbVars, lineVars, totalsVars, roundVars,
                       summaryVars, evalVars, sendVars>>

\* steps 6 to 8: the invoice is inserted, the items are copied, redirect
ConvertInsert(p) ==
    LET c == conv[p]
        id == Len(invoices) + 1
    IN  /\ c.pc = "insert"
        /\ Len(invoices) < MaxInvoices
        /\ Len(invItems) + Len(c.items) <= MaxItems
        /\ invoices' = Append(invoices,
                [user_id |-> c.caller, status |-> "draft", invoice_number |-> c.invNo,
                 issued_at |-> NoTime, locked_at |-> NoTime, quote_id |-> c.quoteId,
                 original_invoice_id |-> NoId, correction_type |-> "none",
                 paid_at |-> NoTime])
        /\ invItems' = invItems \o
                [k \in 1..Len(c.items) |->
                    [invoice_id |-> id, row |-> copiedItem(c.items[k])]]
        /\ conv' = [conv EXCEPT ![p] = NoCall]
        /\ lastConvert' =
                [caller |-> c.caller, quoteId |-> c.quoteId, outcome |-> "created"]
        /\ UNCHANGED <<quote, quoteItems, now, lineVars, totalsVars, roundVars,
                       summaryVars, evalVars, sendVars>>

\* -1 * toNumber(qty)
negated(x) == IF isFinite(x) THEN Num(-x.v) ELSE NaN

\* the row createCorrection makes from a row of the original invoice
correctionItem(it, type) ==
    Row(IF type = "credit" THEN negated(toNumber(it.qty)) ELSE toNumber(it.qty),
        toNumber(it.unit_price), it.vat_type, nullOrNumber(it.vat_rate))

\* createCorrection for invoice i with the form's type, by caller u: a new
\* draft without a number that takes over quote_id, and a copy of the items.
\* The handler reads neither status nor locked_at of the invoice.
createCorrectionOf(i, type, u) ==
    LET inv == invoices[i]
        its == itemsOfIn(invItems, i)
        id == Len(invoices) + 1
    IN  /\ type \in {"credit", "debit"}
        /\ u # NoUser
        /\ Len(invoices) < MaxInvoices
        /\ Len(invItems) + Len(its) <= MaxItems
        /\ invoices' = Append(invoices,
                [user_id |-> inv.user_id, status |-> "draft",
                 invoice_number |-> NoNumber, issued_at |-> NoTime,
                 locked_at |-> NoTime, quote_id |-> inv.quote_id,
                 original_invoice_id |-> i, correction_type |-> type,
                 paid_at |-> NoTime])
        /\ invItems' = invItems \o
                [k \in 1..Len(its) |->
                    [invoice_id |-> id, row |-> correctionItem(its[k].row, type)]]
        /\ UNCHANGED <<now, convertVars, lineVars, totalsVars, roundVars,
                       summaryVars, evalVars, sendVars>>

\* createCorrection from the page of invoice i, which shows its two buttons
\* when the invoice is locked and not cancelled
CreateCorrection ==
    \E i \in 1..Len(invoices), type \in {"credit", "debit"}, u \in Callers :
        /\ isLocked(invoices[i]) /\ invoices[i].status # "cancelled"
        /\ createCorrectionOf(i, type, u)

NextConvert ==
    \/ \E p \in Procs : ConvertBegin(p)
    \/ \E p \in Procs : ConvertInsert(p)
    \/ SetStatus
    \/ CreateCorrection

SpecConvert == InitConvert /\ [][NextConvert]_vars

\* C17: at any time at most one invoice has a given quote_id, whatever calls of
\* convertQuoteToInvoice and createCorrection ran and however they interleaved,
\* and a convertQuoteToInvoice call that ends while an invoice is linked to
\* its quote ended in the redirect to that invoice.
C17_OneInvoicePerQuote ==
    /\ Cardinality(linkedTo(1)) <= 1
    /\ (lastConvert.outcome # "none" /\ lastConvert.quoteId = 1
            /\ lastConvert.caller = Owner /\ linkedTo(1) # {}) =>
                lastConvert.outcome \in {"created", "redirect"}

\* what does hold: an invoice linked to the quote is one convertQuoteToInvoice
\* inserted or a correction that goes back to one
C17_LinkedAreConvertedOrCorrections ==
    \A i \in linkedTo(1) :
        \/ invoices[i].original_invoice_id = NoId
        \/ invoices[i].original_invoice_id \in linkedTo(1)

\* the caller is logged in, the quote exists, is the caller's and is accepted
convertAllowed(caller, quoteId) ==
    /\ caller # NoUser
    /\ quoteId = 1
    /\ quote.user_id = caller
    /\ quote.status = "accepted"

\* C18: convertQuoteToInvoice creates an invoice and copies the items only
\* when the caller is authenticated, owns the quote and the quote's status is
\* accepted; in every other case (not logged in, quote missing, foreign quote,
\* status draft, sent or declined) it throws and leaves the invoices and
\* invoice_items tables unchanged.
C18_ConvertGuarded ==
    [][LET id == Len(invoices) + 1
           tablesSame == invoices' = invoices /\ invItems' = invItems
       IN
       /\ \A p \in Procs :
            conv'[p].pc = "insert" => convertAllowed(conv'[p].caller, conv'[p].quoteId)
       /\ ((conv' # conv \/ lastConvert' # lastConvert) /\ ~tablesSame) =>
            /\ lastConvert'.outcome = "created"
            /\ convertAllowed(lastConvert'.caller, lastConvert'.quoteId)
            /\ Len(invoices') = id
            /\ SubSeq(invoices', 1, Len(invoices)) = invoices
            /\ invoices'[id].quote_id = lastConvert'.quoteId
            /\ invoices'[id].user_id = lastConvert'.caller
            /\ invoices'[id].status = "draft"
            /\ invItems' = invItems \o
                    [k \in 1..Len(quoteItems) |->
                        [invoice_id |-> id, row |-> copiedItem(quoteItems[k])]]
       /\ (lastConvert' # lastConvert
                /\ ~convertAllowed(lastConvert'.caller, lastConvert'.quoteId)) =>
            (lastConvert'.outcome = "throw" /\ tablesSame)]_vars

\* the accepted quote with the legacy row was converted: invoice 1 with the
\* row's copy
C18_Witness ==
    /\ lastConvert = [caller |-> Owner, quoteId |-> 1, outcome |-> "created"]
    /\ quote.status = "accepted"
    /\ Len(invoices) = 1
    /\ invoices[1].quote_id = 1
    /\ invItems = <<[invoice_id |-> 1, row |-> Row(Num(50), Num(99), "NL_21", Null)]>>

(***************************************************************************)
(* The status workflow of an invoice.                                      *)
(***************************************************************************)

\* the changes of status the invoice page offers: "Markeer als verstuurd" and
\* "Verwijder concept" on a draft, "Markeer als betaald" on an invoice that
\* is neither draft nor cancelled
pageOffers(from, to) ==
    \/ from = "draft" /\ to \in {"sent", "cancelled"}
    \/ from \notin {"draft", "cancelled"} /\ to = "paid"

\* C21: setStatus changes an invoice's status only along the workflow the
\* page states (draft to sent, draft to cancelled, non-draft non-cancelled to
\* paid), whatever status is submitted, so every sent or paid invoice has
\* locked_at and an invoice number.
C21_StatusWorkflow ==
    /\ [][\A i \in 1..Len(invoices) :
            invoices'[i].status # invoices[i].status =>
                pageOffers(invoices[i].status, invoices'[i].status)]_vars
    /\ [](\A i \in 1..Len(invoices) :
            invoices[i].status \in {"sent", "paid"} =>
                (invoices[i].locked_at # NoTime /\ invoices[i].invoice_number # NoNumber))

\* what does hold: an invoice whose status is sent has locked_at and a number
C21_SentIsStamped ==
    \A i \in 1..Len(invoices) :
        invoices[i].status = "sent" =>
            (invoices[i].locked_at # NoTime /\ invoices[i].invoice_number # NoNumber)

(***************************************************************************)
(* paid_at.  The invoice detail page's file holds setStatus twice: the     *)
(* first writes paid_at and reads nothing, the second stamps and numbers   *)
(* the invoice and does not write paid_at.                                 *)
(***************************************************************************)

\* patch.paid_at of the first setStatus: now for paid, null for the others
paidAtPatch(nextStatus) == IF nextStatus = "paid" THEN now ELSE NoTime

\* the first setStatus for invoice i: any of the five statuses, the caller
\* logged in; the patch is status and paid_at
SetStatusFirst ==
    \E i \in 1..Len(invoices), nextStatus \in InvoiceStatuses, u \in {NoUser, Owner} :
        /\ u # NoUser
        /\ nextStatus = "paid" => now <= MaxClock
        /\ invoices' = [invoices EXCEPT ![i] =
                [@ EXCEPT !.status = nextStatus, !.paid_at = paidAtPatch(nextStatus)]]
        /\ now' = IF nextStatus = "paid" THEN now + 1 ELSE now
        /\ UNCHANGED <<invItems, convertVars, lineVars, totalsVars, roundVars,
                       summaryVars, evalVars, sendVars>>

\* the invoices the dashboard's "paid this month" query finds for the month
\* [startOfMonth, nextMonth): a null paid_at passes neither comparison
paidThisMonth(startOfMonth, nextMonth) ==
    {i \in 1..Len(invoices) :
        /\ invoices[i].status = "paid"
        /\ invoices[i].paid_at # NoTime
        /\ invoices[i].paid_at >= startOfMonth
        /\ invoices[i].paid_at < nextMonth}

NextPaid == CreateInvoice \/ SetStatusFirst \/ SetStatus

SpecPaid == InitInvoice /\ [][NextPaid]_vars

\* C22: after any sequence of setStatus calls paid_at is non-null exactly
\* when the status is paid, so every paid invoice is found by the dashboard's
\* paid_at filter (here with the whole run as the month).
C22_PaidAtIffPaid ==
    /\ \A i \in 1..Len(invoices) :
            (invoices[i].paid_at # NoTime) <=> (invoices[i].status = "paid")
    /\ \A i \in 1..Len(invoices) :
            invoices[i].status = "paid" => i \in paidThisMonth(1, now + 1)

\* what does hold: a step that writes paid_at leaves it set exactly when the
\* status it leaves is paid, and paid_at is only ever set on a paid step
C22_PaidAtWrittenWithStatus ==
    [][\A i \in 1..Len(invoices) :
          invoices'[i].paid_at # invoices[i].paid_at =>
              ((invoices'[i].paid_at # NoTime) <=> (invoices'[i].status = "paid"))]_vars

(***************************************************************************)
(* createCorrection as a server action: called for any invoice, with any   *)
(* type in the form data.                                                  *)
(***************************************************************************)

\* what the form data's type can be: the two of the buttons, and another
CorrectionTypes == {"credit", "debit", "none"}

CreateCorrectionCall ==
    \E i \in 1..Len(invoices), type \in CorrectionTypes, u \in {NoUser, Owner} :
        createCorrectionOf(i, type, u)

NextCorrection == CreateInvoice \/ AddItem \/ SetStatus \/ CreateCorrectionCall

SpecCorrection == InitInvoice /\ [][NextCorrection]_vars

\* C23: createCorrection creates a correction only for an invoice that is
\* locked and not cancelled, and only of type credit or debit; the original
\* invoice and its items are never modified.
C23_CorrectionOnlyWhenLocked ==
    [][\A k \in 1..Len(invoices') :
          (k > Len(invoices) /\ invoices'[k].original_invoice_id # NoId) =>
              LET o == invoices'[k].original_invoice_id IN
              /\ isLocked(invoices[o])
              /\ invoices[o].status # "cancelled"
              /\ invoices'[k].correction_type \in {"credit", "debit"}
              /\ invoices'[o] = invoices[o]
              /\ itemsOfIn(invItems', o) = itemsOfIn(invItems, o)]_vars

\* what does hold: a correction is of type credit or debit and leaves the
\* original invoice and its items as they were
C23_OriginalUntouched ==
    [][\A k \in 1..Len(invoices') :
          (k > Len(invoices) /\ invoices'[k].original_invoice_id # NoId) =>
              LET o == invoices'[k].original_invoice_id IN
              /\ invoices'[k].correction_type \in {"credit", "debit"}
              /\ invoices'[o] = invoices[o]
              /\ itemsOfIn(invItems', o) = itemsOfIn(invItems, o)]_vars

(***************************************************************************)
(* setStatus in its two database steps: the reads (the current row, the    *)
(* user's last invoice_number) with the patch built from them, and the     *)
(* update.  Calls of different requests run side by side.                  *)
(***************************************************************************)

\* the statuses the overlapping calls submit
SendStatuses == {"sent", "paid"}

\* the patch setStatus builds: the status, and for 'sent' the timestamp and
\* the number where the row read has none (NoTime, NoNumber: not in the patch)
patchOf(current, nextStatus, u) ==
    [status |-> nextStatus,
     stamp |-> IF nextStatus = "sent" /\ needsLock(current) THEN now ELSE NoTime,
     number |-> IF nextStatus = "sent" /\ needsNumber(current)
                THEN lastInvoiceNumber(u) + 1 ELSE NoNumber]

\* update(patch) on the row as it is when the update runs
updated(row, patch) ==
    LET a == [row EXCEPT !.status = patch.status]
        b == IF patch.stamp # NoTime
             THEN [a EXCEPT !.issued_at = patch.stamp, !.locked_at = patch.stamp] ELSE a
    IN  IF patch.number # NoNumber THEN [b EXCEPT !.invoice_number = patch.number] ELSE b

\* the checks and the reads of a setStatus call for invoice i
SetStatusRead(p) ==
    \E i \in 1..Len(invoices), nextStatus \in SendStatuses, u \in {Owner, "u2"} :
        LET current == invoices[i]
            patch == patchOf(current, nextStatus, u)
        IN  /\ sending[p].pc = "idle"
            /\ current.user_id = u
            /\ patch.stamp # NoTime => now <= MaxClock
            /\ sending' = [sending EXCEPT ![p] = [pc |-> "update", id |-> i, patch |-> patch]]
            /\ now' = IF patch.stamp # NoTime THEN now + 1 ELSE now
            /\ UNCHANGED <<invoices, invItems, convertVars, lineVars, totalsVars,
                           roundVars, summaryVars, evalVars>>

\* the update of the call
SetStatusUpdate(p) ==
    LET c == sending[p] IN
    /\ c.pc = "update"
    /\ invoices' = [invoices EXCEPT ![c.id] = updated(@, c.patch)]
    /\ sending' = [sending EXCEPT ![p] = NoCall]
    /\ UNCHANGED <<invItems, now, convertVars, lineVars, totalsVars, roundVars,
                   summaryVars, evalVars>>

NextSend ==
    \/ CreateInvoice
    \/ \E p \in Procs : SetStatusRead(p)
    \/ \E p \in Procs : SetStatusUpdate(p)

SpecSend == InitInvoice /\ [][NextSend]_vars

\* C24: invoice numbers are unique per user: however setStatus('sent') calls
\* on different draft invoices of a user interleave, no two invoices of the
\* user hold the same invoice_number.
C24_NumbersUnique ==
    \A i, j \in 1..Len(invoices) :
        (/\ i # j
         /\ invoices[i].user_id = invoices[j].user_id
         /\ invoices[i].invoice_number # NoNumber) =>
            invoices[i].invoice_number # invoices[j].invoice_number

\* what does hold: with setStatus calls one after the other (SpecInvoice) the
\* numbers given are all different
C24_UniqueOneAtATime ==
    \A i, j \in 1..Len(invoices) :
        (i # j /\ invoices[i].invoice_number # NoNumber) =>
            invoices[i].invoice_number # invoices[j].invoice_number

\* an update writes what the atomic step writes when nothing ran in between
C24_UpdateIsPatch ==
    \A i \in 1..Len(invoices), nextStatus \in InvoiceStatuses :
        updated(invoices[i], patchOf(invoices[i], nextStatus, Owner)) =
            patched(invoices[i], nextStatus, Owner)

(***************************************************************************)
(* A sent invoice and its corrections, with the totals the invoice PDF     *)
(* route and the invoice detail page compute for each.                     *)
(***************************************************************************)

\* Rows as the add-item form stores them (qty > 0, price >= 0, rate >= 0):
\* a plain row, half a unit at 0.99 (a half cent), 0.50 at 21% (VAT of 10.5
\* cents), a 9% row and a reverse-charge row.
CreditRows ==
    {Row(Num(100), Num(10000), "NL_21", Num(21)),
     Row(Num(50), Num(99), "NL_21", Num(21)),
     Row(Num(100), Num(50), "NL_21", Num(21)),
     Row(Num(100), Num(10000), "NL_9_WONING", Num(9)),
     Row(Num(100), Num(50000), "NL_REVERSE_CHARGE", Num(0))}

\* the lists of items the sent invoice has; a correction doubles them
CreditItemLists ==
    UNION {[1..n -> {[invoice_id |-> 1, row |-> r] : r \in CreditRows}] :
                n \in 0..(MaxItems \div 2)}

\* the rows of the items its, as the select of a page or route returns them
rowsOf(its) == [k \in 1..Len(its) |-> its[k].row]

\* invoice 1 was created, given its items and marked sent at time 1
InitCredit ==
    /\ invoices = <<[user_id |-> Owner, status |-> "sent", invoice_number |-> 1,
                     issued_at |-> 1, locked_at |-> 1, quote_id |-> NoId,
                     original_invoice_id |-> NoId, correction_type |-> "none",
                     paid_at |-> NoTime]>>
    /\ invItems \in CreditItemLists
    /\ now = 2
    /\ pricesIncludeVat \in BOOLEAN
    /\ defaultVatRate = Num(21)
    /\ items = << >>
    /\ view = "none"
    /\ out = [subtotal |-> Num(0)]
    /\ shown = << >>
    /\ ConvertIdle
    /\ SendIdle
    /\ LineIdle
    /\ RoundIdle
    /\ SummaryIdle
    /\ EvalIdle

NextCredit == CreateCorrectionCall \/ SetStatus

SpecCredit == InitCredit /\ [][NextCredit]_vars

\* the breakdown rows with base and vat negated
negatedRows(rows) ==
    [k \in 1..Len(rows) |->
        [rate |-> rows[k].rate, base |-> negated(rows[k].base), vat |-> negated(rows[k].vat)]]

\* the totals of the invoice PDF route for c are the negations of those for o
pdfTotalsNegated(o, c) ==
    /\ c.subtotal = negated(o.subtotal)
    /\ c.vat_amount = negated(o.vat_amount)
    /\ c.total = negated(o.total)
    /\ c.vat_breakdown = negatedRows(o.vat_breakdown)

\* the same for the totals of the invoice detail page
pageTotalsNegated(o, c) ==
    /\ c.baseSubtotal = negated(o.baseSubtotal)
    /\ c.vatTotal = negated(o.vatTotal)
    /\ c.grossTotal = negated(o.grossTotal)
    /\ c.breakdown = negatedRows(o.breakdown)

\* C25: a credit correction reverses the original exactly: the subtotal,
\* every breakdown row's base and VAT, the VAT amount and the total computed
\* for the credit invoice are the negations of those computed for the
\* original, in the invoice PDF route and in the invoice detail page.
C25_CreditReverses ==
    [][\A k \in 1..Len(invoices') :
          (k > Len(invoices) /\ invoices'[k].correction_type = "credit") =>
              LET o == loadItems(rowsOf(itemsOfIn(invItems, invoices'[k].original_invoice_id)))
                  c == loadItems(rowsOf(itemsOfIn(invItems', k)))
              IN  /\ pdfTotalsNegated(calcTotals(o), calcTotals(c))
                  /\ pageTotalsNegated(
                        computeVatBreakdown(o, defaultVatRate, pricesIncludeVat),
                        computeVatBreakdown(c, defaultVatRate, pricesIncludeVat))]_vars

\* what does hold: the credit invoice's rows are the original's with the
\* quantity negated, and a debit correction's totals are the original's
C25_QuantitiesNegated ==
    [][\A k \in 1..Len(invoices') :
          (k > Len(invoices) /\ invoices'[k].original_invoice_id # NoId) =>
              LET o == loadItems(rowsOf(itemsOfIn(invItems, invoices'[k].original_invoice_id)))
                  c == loadItems(rowsOf(itemsOfIn(invItems', k)))
              IN  IF invoices'[k].correction_type = "credit"
                  THEN /\ Len(c) = Len(o)
                       /\ \A n \in 1..Len(o) :
                            c[n] = [o[n] EXCEPT !.qty = negated(o[n].qty)]
                  ELSE calcTotals(c) = calcTotals(o)]_vars

====
